---- MODULE Spec2Model ----
(***************************************************************************)
(* The Naive datalog borrow-check analysis of polonius-engine               *)
(* (src/polonius-engine/src/output/naive.rs, fn compute), run on the        *)
(* datafrog semi-naive evaluation primitives (Variable = stable / recent /  *)
(* to_add partitions, Iteration::changed, from_map, from_join,              *)
(* from_antijoin, complete).                                                *)
(*                                                                          *)
(* Two lines of compute do not type-check as written: line 147 writes to an *)
(* undeclared variable new_borrow_live_at (no effect on any declared        *)
(* variable, so it is modelled as no step), and line 150 joins invalidates, *)
(* keyed by (Loan, Point), with borrow_live_at, whose tuples are the bare   *)
(* (Loan, Point) pairs produced at line 145; the closure at line 150 takes  *)
(* the whole pair as the join key, which is how the join is modelled.       *)
(***************************************************************************)
EXTENDS Integers, Sequences, FiniteSets, TLC

\* ------------------------------------------------------------------ bounds
NumRegions == 3
NumPoints == 2
NumLoans == 1
\* the largest number of tuples in an input fact bundle
MaxFacts == 3

Region == 1..NumRegions
Point == 1..NumPoints
Loan == 1..NumLoans

\* the unit value () of the keyed relations ((K), ())
Unit == <<>>

VARIABLES
  pc,              \* position in compute
  dump_enabled,    \* parameter dump_enabled
  all_facts,       \* parameter all_facts: a record of Vec (sequences)
  result,          \* the Output under construction
  subset, requires, borrow_live_at, invalidates,
  subset_r1p, subset_r2p, subset_p,
  requires_rp, requires_bp,
  subset_1, subset_2, requires_1, requires_2,
  killed,          \* a Relation (a set), not a Variable
  region_live_at, cfg_edge_p, errors,
  given,           \* the caller's fact bundle, as passed to the first invocation
  run,             \* 1 in the first invocation of compute, 2 in a repeated one
  first            \* what the first invocation finalized

iter_vars == <<subset, requires, borrow_live_at, invalidates,
               subset_r1p, subset_r2p, subset_p, requires_rp, requires_bp,
               subset_1, subset_2, requires_1, requires_2,
               region_live_at, cfg_edge_p, errors>>

vars == <<pc, dump_enabled, all_facts, result, iter_vars, killed, given, run, first>>

\* ------------------------------------------------------------ Vec helpers
ToSet(s) == {s[i] : i \in DOMAIN s}

RECURSIVE SetToSeq(_)
\* some Vec holding the elements of S, each once
SetToSeq(S) == IF S = {} THEN <<>>
               ELSE LET x == CHOOSE y \in S : TRUE
                    IN <<x>> \o SetToSeq(S \ {x})

RECURSIVE SortedSeq(_)
\* ascending iteration over an ordered set of atoms
SortedSeq(S) == IF S = {} THEN <<>>
                ELSE LET m == CHOOSE y \in S : \A z \in S : y <= z
                     IN <<m>> \o SortedSeq(S \ {m})

\* the order of pairs reversed
PairLeq_descending(a, b) == a[1] > b[1] \/ (a[1] = b[1] /\ a[2] >= b[2])

\* derived Ord on pairs of atoms: lexicographic
PairLeq(a, b) == a[1] < b[1] \/ (a[1] = b[1] /\ a[2] <= b[2])

RECURSIVE SortedPairs(_)
\* Relation.elements of a relation of pairs: sorted, deduplicated
SortedPairs(S) == IF S = {} THEN <<>>
                  ELSE LET m == CHOOSE y \in S : \A z \in S : PairLeq(y, z)
                       IN <<m>> \o SortedPairs(S \ {m})

\* Relation::from(vec): sort and dedup; as a set
RelationFrom(vec) == ToSet(vec)

\* --------------------------------------------------------- datafrog model
\* Iteration::variable / variable_indistinct: a fresh Variable
NewVariable == [stable |-> {}, recent |-> {}, to_add |-> {}]

\* Variable::insert(relation)
Insert(v, rel) == [v EXCEPT !.to_add = @ \cup rel]

\* Variable::changed() without step 2b, the restriction of to_add to the tuples
\* not in stable
VarChanged_no_dedup(v, distinct) ==
  [stable |-> v.stable \cup v.recent, recent |-> v.to_add, to_add |-> {}]

\* Variable::changed(): recent is merged into stable, to_add becomes recent
\* (for a distinct variable: minus what stable already holds)
VarChanged(v, distinct) ==
  LET stable2 == v.stable \cup v.recent
  IN [stable |-> stable2,
      recent |-> IF distinct THEN v.to_add \ stable2 ELSE v.to_add,
      to_add |-> {}]

\* join::join_helper: the matches <<key, val1, val2>> of two keyed relations
JoinHelper(A, B) ==
  UNION {{<<a[1], a[2], b[2]>> : b \in {y \in B : y[1] = a[1]}} : a \in A}

\* join_into with the recent x recent matches only
JoinInto_recent_only(input1, input2) == JoinHelper(input1.recent, input2.recent)

\* join::join_into: recent x stable, stable x recent, recent x recent
JoinInto(input1, input2) ==
  JoinHelper(input1.recent, input2.stable)
    \cup JoinHelper(input1.stable, input2.recent)
    \cup JoinHelper(input1.recent, input2.recent)

\* join::antijoin_into: the recent tuples of input1 whose key is not in the
\* relation input2
AntiJoin(input1, input2) == {t \in input1.recent : t[1] \notin input2}

\* a Variable of tuples read as keyed by the whole tuple: (tuple, ())
Keyed(v) == [stable |-> {<<t, Unit>> : t \in v.stable},
             recent |-> {<<t, Unit>> : t \in v.recent},
             to_add |-> {<<t, Unit>> : t \in v.to_add}]

\* ----------------------------------------------------------------- inputs
FactUniverse ==
  ({"cfg_edge"} \X (Point \X Point))
    \cup ({"universal_region"} \X Region)
    \cup ({"outlives"} \X (Region \X Region \X Point))
    \cup ({"borrow_region"} \X (Region \X Loan \X Point))
    \cup ({"region_live_at"} \X (Region \X Point))
    \cup ({"killed"} \X (Loan \X Point))
    \cup ({"invalidates"} \X (Point \X Loan))

RECURSIVE SubsetsUpTo(_, _)
SubsetsUpTo(S, k) ==
  IF k = 0 THEN {{}}
  ELSE LET prev == SubsetsUpTo(S, k - 1)
       IN prev \cup {T \cup {x} : T \in prev, x \in S}

FactBundles == SubsetsUpTo(FactUniverse, MaxFacts)

Field(F, name) == SetToSeq({f[2] : f \in {g \in F : g[1] = name}})

\* AllFacts built from a bundle of tagged facts
AllFacts(F) ==
  [cfg_edge         |-> Field(F, "cfg_edge"),
   universal_region |-> Field(F, "universal_region"),
   outlives         |-> Field(F, "outlives"),
   borrow_region    |-> Field(F, "borrow_region"),
   region_live_at   |-> Field(F, "region_live_at"),
   killed           |-> Field(F, "killed"),
   invalidates      |-> Field(F, "invalidates")]

\* Output::new
OutputNew == [errors |-> <<>>, subset |-> <<>>, restricts |-> <<>>,
              region_live_at |-> <<>>, borrow_live_at |-> <<>>]

NoResult == [subset |-> {}, requires |-> {}, borrow_live_at |-> {}, errors |-> {},
             result |-> OutputNew]

InitState ==
  /\ pc = "start"
  /\ result = OutputNew
  /\ subset = NewVariable /\ requires = NewVariable
  /\ borrow_live_at = NewVariable /\ invalidates = NewVariable
  /\ subset_r1p = NewVariable /\ subset_r2p = NewVariable /\ subset_p = NewVariable
  /\ requires_rp = NewVariable /\ requires_bp = NewVariable
  /\ subset_1 = NewVariable /\ subset_2 = NewVariable
  /\ requires_1 = NewVariable /\ requires_2 = NewVariable
  /\ killed = {}
  /\ region_live_at = NewVariable /\ cfg_edge_p = NewVariable
  /\ errors = NewVariable
  /\ given = all_facts
  /\ run = 1
  /\ first = NoResult

\* every bundle of at most MaxFacts input tuples
Init ==
  /\ dump_enabled \in BOOLEAN
  /\ \E F \in FactBundles : all_facts = AllFacts(F)
  /\ InitState

\* a borrow of loan 1 at point 1 of the control flow graph 1 -> 2
FlowBase == {<<"cfg_edge", <<1, 2>>>>, <<"borrow_region", <<1, 1, 1>>>>}

\* the borrow-and-edge base extended by every bundle of at most MaxFacts tuples
InitFlow ==
  /\ dump_enabled \in BOOLEAN
  /\ \E F \in FactBundles : all_facts = AllFacts(FlowBase \cup F)
  /\ InitState

\* one loan more than Loan, for inputs with several errors at one point
Loans2 == 1..(NumLoans + 1)

\* region 1 borrowed at point 1 by the first and by the last loan of Loans2
LoansBase == {<<"borrow_region", <<1, 1, 1>>>>,
              <<"borrow_region", <<1, NumLoans + 1, 1>>>>}

LoansUniverse ==
  ({"borrow_region"} \X (Region \X Loans2 \X Point))
    \cup ({"region_live_at"} \X (Region \X Point))
    \cup ({"invalidates"} \X (Point \X Loans2))

\* the two borrows extended by at most MaxFacts borrow, liveness and
\* invalidation tuples over Loans2
InitLoans ==
  /\ dump_enabled \in BOOLEAN
  /\ \E F \in SubsetsUpTo(LoansUniverse, MaxFacts) :
       all_facts = AllFacts(LoansBase \cup F)
  /\ InitState

\* ----------------------------------------------------- lines 25-38
\* all_points without the chained targets
AllPoints_sources(facts) == {e[1] : e \in ToSet(facts.cfg_edge)}

\* all_points: the BTreeSet of the sources and targets of cfg_edge
AllPoints(facts) ==
  {e[1] : e \in ToSet(facts.cfg_edge)} \cup {e[2] : e \in ToSet(facts.cfg_edge)}

\* the outer loop of lines 32-36 left after its first region
PushUniversal_first_region(rs, ps) ==
  IF rs = <<>> THEN <<>> ELSE [i \in 1..Len(ps) |-> <<Head(rs), ps[i]>>]

RECURSIVE PushUniversal(_, _)
\* for &r in universal_region { for &p in all_points { push((r, p)) } }
PushUniversal(rs, ps) ==
  IF rs = <<>> THEN <<>>
  ELSE [i \in 1..Len(ps) |-> <<Head(rs), ps[i]>>] \o PushUniversal(Tail(rs), ps)

Preprocess ==
  /\ pc = "start"
  /\ all_facts' = [all_facts EXCEPT !.region_live_at =
                     @ \o PushUniversal(all_facts.universal_region,
                                        SortedSeq(AllPoints(all_facts)))]
  /\ result' = OutputNew
  /\ pc' = "load"
  /\ UNCHANGED <<dump_enabled, iter_vars, killed, given, run, first>>

\* ----------------------------------------------------- lines 44-84
\* line 76 left out
LoadOutlives_nothing == {}

\* line 76: subset.insert(all_facts.outlives.into())
LoadOutlives == RelationFrom(all_facts.outlives)

LoadRegionLiveAt == {<<t, Unit>> : t \in RelationFrom(all_facts.region_live_at)}

LoadInvalidates == {<< <<t[2], t[1]>>, Unit >> : t \in RelationFrom(all_facts.invalidates)}

Load ==
  /\ pc = "load"
  /\ subset' = Insert(NewVariable, LoadOutlives)
  /\ requires' = Insert(NewVariable, RelationFrom(all_facts.borrow_region))
  /\ region_live_at' = Insert(NewVariable, LoadRegionLiveAt)
  /\ invalidates' = Insert(NewVariable, LoadInvalidates)
  /\ cfg_edge_p' = Insert(NewVariable, RelationFrom(all_facts.cfg_edge))
  /\ killed' = RelationFrom(all_facts.killed)
  /\ borrow_live_at' = NewVariable /\ errors' = NewVariable
  /\ subset_r1p' = NewVariable /\ subset_r2p' = NewVariable /\ subset_p' = NewVariable
  /\ requires_rp' = NewVariable /\ requires_bp' = NewVariable
  /\ subset_1' = NewVariable /\ subset_2' = NewVariable
  /\ requires_1' = NewVariable /\ requires_2' = NewVariable
  /\ pc' = "loop"
  /\ UNCHANGED <<dump_enabled, all_facts, result, given, run, first>>

\* ----------------------------------------------------- line 87
\* lines 47-73 with subset made by variable_indistinct
Distinct_but_subset ==
  {"requires", "borrow_live_at", "invalidates", "region_live_at", "cfg_edge_p", "errors"}

\* lines 47-73: the variables made by iteration.variable; the others are made
\* by iteration.variable_indistinct
Distinct ==
  {"subset", "requires", "borrow_live_at", "invalidates", "region_live_at",
   "cfg_edge_p", "errors"}

\* Iteration::changed(): every variable's changed(); true when some variable
\* has recent tuples
\* changed() asked of the first four variables only
AnyRecent_first_four(vs) == \E i \in 1..4 : vs[i].recent # {}

AnyRecent(vs) == \E i \in DOMAIN vs : vs[i].recent # {}

Changed ==
  /\ pc = "loop"
  /\ subset' = VarChanged(subset, "subset" \in Distinct)
  /\ requires' = VarChanged(requires, "requires" \in Distinct)
  /\ borrow_live_at' = VarChanged(borrow_live_at, "borrow_live_at" \in Distinct)
  /\ invalidates' = VarChanged(invalidates, "invalidates" \in Distinct)
  /\ region_live_at' = VarChanged(region_live_at, "region_live_at" \in Distinct)
  /\ cfg_edge_p' = VarChanged(cfg_edge_p, "cfg_edge_p" \in Distinct)
  /\ errors' = VarChanged(errors, "errors" \in Distinct)
  /\ subset_r1p' = VarChanged(subset_r1p, "subset_r1p" \in Distinct)
  /\ subset_r2p' = VarChanged(subset_r2p, "subset_r2p" \in Distinct)
  /\ subset_p' = VarChanged(subset_p, "subset_p" \in Distinct)
  /\ requires_rp' = VarChanged(requires_rp, "requires_rp" \in Distinct)
  /\ requires_bp' = VarChanged(requires_bp, "requires_bp" \in Distinct)
  /\ subset_1' = VarChanged(subset_1, "subset_1" \in Distinct)
  /\ subset_2' = VarChanged(subset_2, "subset_2" \in Distinct)
  /\ requires_1' = VarChanged(requires_1, "requires_1" \in Distinct)
  /\ requires_2' = VarChanged(requires_2, "requires_2" \in Distinct)
  /\ pc' = IF AnyRecent(iter_vars') THEN "prune" ELSE "extract"
  /\ UNCHANGED <<dump_enabled, all_facts, result, killed, given, run, first>>

\* ----------------------------------------------------- lines 96-100
\* the cleanup step left out
Retain_nothing_removed(elements) == elements
\* the cleanup step comparing r1 with the point for r2
Retain_region_point(elements) == {t \in elements : t[1] # t[3]}
\* the cleanup step with r1 < r2 for r1 != r2
Retain_ascending(elements) == {t \in elements : t[1] < t[2]}
\* subset.recent.elements.retain(|&(r1, r2, _)| r1 != r2)
Retain(elements) == {t \in elements : t[1] # t[2]}

Prune ==
  /\ pc = "prune"
  /\ subset' = [subset EXCEPT !.recent = Retain(@)]
  /\ pc' = "rules"
  /\ UNCHANGED <<dump_enabled, all_facts, result, requires, borrow_live_at,
                 invalidates, subset_r1p, subset_r2p, subset_p, requires_rp,
                 requires_bp, subset_1, subset_2, requires_1, requires_2,
                 killed, region_live_at, cfg_edge_p, errors, given, run, first>>

\* ----------------------------------------------------- lines 103-150
\* line 103: subset_r1p.from_map(&subset, |&(r1, r2, p)| ((r1, p), r2))
subset_r1p_map == {<< <<t[1], t[3]>>, t[2] >> : t \in subset.recent}
\* line 104: subset_r2p.from_map(&subset, |&(r1, r2, p)| ((r2, p), r1))
subset_r2p_map == {<< <<t[2], t[3]>>, t[1] >> : t \in subset.recent}
\* line 105: subset_p.from_map(&subset, |&(r1, r2, p)| (p, (r1, r2)))
subset_p_map == {<< t[3], <<t[1], t[2]>> >> : t \in subset.recent}
\* line 107: requires_rp.from_map(&requires, |&(r, b, p)| ((r, p), b))
requires_rp_map == {<< <<t[1], t[3]>>, t[2] >> : t \in requires.recent}
\* line 108: requires_bp.from_map(&requires, |&(r, b, p)| ((b, p), r))
requires_bp_map == {<< <<t[2], t[3]>>, t[1] >> : t \in requires.recent}

\* line 116 with subset_r1p for subset_r2p
subset_transitive_wrong_index ==
  {<<j[2], j[3], j[1][2]>> : j \in JoinInto(subset_r1p, subset_r1p)}
\* line 116: key (r2, p), r1, r3 -> (r1, r3, p)
subset_transitive == {<<j[2], j[3], j[1][2]>> : j \in JoinInto(subset_r2p, subset_r1p)}
\* line 124: key p, (r1, r2), q -> ((r1, q), r2)
subset_1_join == {<< <<j[2][1], j[3]>>, j[2][2] >> : j \in JoinInto(subset_p, cfg_edge_p)}
\* lines 125-127 as a plain map, region_live_at(r1, q) not asked for
subset_2_join_unfiltered == {<< <<t[2], t[1][2]>>, t[1][1] >> : t \in subset_1.recent}
\* lines 125-127: key (r1, q), r2, () -> ((r2, q), r1)
subset_2_join == {<< <<j[2], j[1][2]>>, j[1][1] >> : j \in JoinInto(subset_1, region_live_at)}
\* line 128: key (r2, q), r1, () -> (r1, r2, q)
subset_cfg == {<<j[2], j[1][1], j[1][2]>> : j \in JoinInto(subset_2, region_live_at)}
\* line 133 with subset_r2p for subset_r1p
requires_subset_wrong_index ==
  {<<j[3], j[2], j[1][2]>> : j \in JoinInto(requires_rp, subset_r2p)}
\* line 133: key (r1, p), b, r2 -> (r2, b, p)
requires_subset == {<<j[3], j[2], j[1][2]>> : j \in JoinInto(requires_rp, subset_r1p)}
\* line 140 as a plain map, killed ignored
requires_1_antijoin_no_kill == {<< t[1][2], <<t[1][1], t[2]>> >> : t \in requires_bp.recent}
\* line 140 keeping the keys in killed instead of dropping them
requires_1_antijoin_inverted ==
  {<< t[1][2], <<t[1][1], t[2]>> >> : t \in {u \in requires_bp.recent : u[1] \in killed}}
\* line 140: key (b, p), r -> (p, (b, r)), for the keys not in killed
requires_1_antijoin == {<< t[1][2], <<t[1][1], t[2]>> >> : t \in AntiJoin(requires_bp, killed)}
\* line 141 keeping the source point p for the target q
requires_2_join_source_point ==
  {<< <<j[2][2], j[1]>>, j[2][1] >> : j \in JoinInto(requires_1, cfg_edge_p)}
\* line 141: key p, (b, r), q -> ((r, q), b)
requires_2_join == {<< <<j[2][2], j[3]>>, j[2][1] >> : j \in JoinInto(requires_1, cfg_edge_p)}
\* line 142: key (r, q), b, () -> (r, b, q)
requires_cfg == {<<j[1][1], j[2], j[1][2]>> : j \in JoinInto(requires_2, region_live_at)}
\* line 145 without the region_live_at filter
borrow_live_at_join_unfiltered == {<<t[2], t[1][2]>> : t \in requires_rp.recent}
\* line 145: key (r, p), b, () -> (b, p)
borrow_live_at_join == {<<j[2], j[1][2]>> : j \in JoinInto(requires_rp, region_live_at)}
\* a Variable of pairs (a, x) read as keyed by a alone
ByFirst(v) == [stable |-> {<<t[1][1], t[1][2]>> : t \in v.stable},
               recent |-> {<<t[1][1], t[1][2]>> : t \in v.recent},
               to_add |-> {<<t[1][1], t[1][2]>> : t \in v.to_add}]
\* line 150 joined on the Loan alone
errors_join_by_loan ==
  {<<j[1], j[2]>> : j \in JoinInto(ByFirst(invalidates), ByFirst(Keyed(borrow_live_at)))}
\* line 150: key (b, p), (), () -> (b, p)
errors_join == {j[1] : j \in JoinInto(invalidates, Keyed(borrow_live_at))}

Rules ==
  /\ pc = "rules"
  /\ subset_r1p' = Insert(subset_r1p, subset_r1p_map)
  /\ subset_r2p' = Insert(subset_r2p, subset_r2p_map)
  /\ subset_p' = Insert(subset_p, subset_p_map)
  /\ requires_rp' = Insert(requires_rp, requires_rp_map)
  /\ requires_bp' = Insert(requires_bp, requires_bp_map)
  /\ subset' = Insert(Insert(subset, subset_transitive), subset_cfg)
  /\ subset_1' = Insert(subset_1, subset_1_join)
  /\ subset_2' = Insert(subset_2, subset_2_join)
  /\ requires' = Insert(Insert(requires, requires_subset), requires_cfg)
  /\ requires_1' = Insert(requires_1, requires_1_antijoin)
  /\ requires_2' = Insert(requires_2, requires_2_join)
  /\ borrow_live_at' = Insert(borrow_live_at, borrow_live_at_join)
  /\ errors' = Insert(errors, errors_join)
  /\ pc' = "loop"
  /\ UNCHANGED <<dump_enabled, all_facts, result, invalidates, killed,
                 region_live_at, cfg_edge_p, given, run, first>>

\* ----------------------------------------------------- lines 153-218
\* Variable::complete() asserts that nothing is left unprocessed
CanComplete(v) == v.recent = {} /\ v.to_add = {}

\* the assertion of lines 155-158
NoSymmetries(rel) == \A t \in rel : t[1] # t[2]

\* Point -> Region -> set (lines 159-167 and 170-178), from (k, v, location)
NestedMap(rel) ==
  [p \in {t[3] : t \in rel} |->
     [k \in {t[1] : t \in {u \in rel : u[3] = p}} |->
        {t[2] : t \in {u \in rel : u[3] = p /\ u[1] = k}}]]

RECURSIVE PushAll(_, _)
\* for (x, location) in elements { map.entry(location).or_insert(vec![]).push(x) }
PushAll(map, elements) ==
  IF elements = <<>> THEN map
  ELSE LET x == Head(elements)[1]
           location == Head(elements)[2]
           old == IF location \in DOMAIN map THEN map[location] ELSE <<>>
       IN PushAll([p \in DOMAIN map \cup {location} |->
                     IF p = location THEN Append(old, x) ELSE map[p]],
                  Tail(elements))

\* lines 210-216 run only under dump_enabled
ErrorsProjection_only_dumped ==
  IF dump_enabled THEN PushAll(result.errors, SortedPairs(errors.stable))
  ELSE result.errors

\* lines 210-216: for (borrow, location) in &errors.elements { .. push }
ErrorsProjection == PushAll(result.errors, SortedPairs(errors.stable))

Extract ==
  /\ pc = "extract"
  /\ IF dump_enabled
       /\ ~(CanComplete(subset) /\ NoSymmetries(subset.stable)
            /\ CanComplete(requires) /\ CanComplete(region_live_at)
            /\ CanComplete(borrow_live_at))
     THEN /\ pc' = "panic"
          /\ UNCHANGED result
     ELSE IF ~CanComplete(errors)
     THEN /\ pc' = "panic"
          /\ UNCHANGED result
     ELSE /\ pc' = "done"
          /\ result' =
               [errors |-> ErrorsProjection,
                subset |-> IF dump_enabled THEN NestedMap(subset.stable)
                           ELSE result.subset,
                restricts |-> IF dump_enabled THEN NestedMap(requires.stable)
                              ELSE result.restricts,
                region_live_at |->
                  IF dump_enabled
                  THEN PushAll(result.region_live_at,
                               SortedPairs({t[1] : t \in region_live_at.stable}))
                  ELSE result.region_live_at,
                borrow_live_at |->
                  IF dump_enabled
                  THEN PushAll(result.borrow_live_at,
                               SortedPairs(borrow_live_at.stable))
                  ELSE result.borrow_live_at]
  /\ UNCHANGED <<dump_enabled, all_facts, iter_vars, killed, given, run, first>>

Next == Preprocess \/ Load \/ Changed \/ Prune \/ Rules \/ Extract

Spec == Init /\ [][Next]_vars

SpecFlow == InitFlow /\ [][Next]_vars

SpecLoans == InitLoans /\ [][Next]_vars

\* compute is one synchronous call: a step that can be taken is taken
FairSpec == Spec /\ WF_vars(Next)

\* ----------------------------------------------------- a second invocation
RECURSIVE Reverse(_)
Reverse(s) == IF s = <<>> THEN <<>> ELSE Reverse(Tail(s)) \o <<Head(s)>>

\* a Vec equal to s as a set: in the opposite order, one tuple pushed twice
Reordered(s) == IF s = <<>> THEN <<>> ELSE Reverse(s) \o <<Head(s)>>

\* the caller runs compute again, on the same facts in another order
Rerun ==
  /\ pc = "done"
  /\ run = 1
  /\ run' = 2
  /\ first' = [subset |-> subset.stable, requires |-> requires.stable,
               borrow_live_at |-> borrow_live_at.stable,
               errors |-> errors.stable, result |-> result]
  /\ all_facts' = [f \in DOMAIN given |-> Reordered(given[f])]
  /\ pc' = "start"
  /\ UNCHANGED <<dump_enabled, result, iter_vars, killed, given>>

NextTwice == Next \/ Rerun

SpecTwice == InitFlow /\ [][NextTwice]_vars

\* the caller runs compute again, on the same facts, with the other value of
\* dump_enabled
RerunFlipped ==
  /\ pc = "done"
  /\ run = 1
  /\ run' = 2
  /\ first' = [subset |-> subset.stable, requires |-> requires.stable,
               borrow_live_at |-> borrow_live_at.stable,
               errors |-> errors.stable, result |-> result]
  /\ all_facts' = given
  /\ dump_enabled' = ~dump_enabled
  /\ pc' = "start"
  /\ UNCHANGED <<result, iter_vars, killed, given>>

NextFlipped == Next \/ RerunFlipped

SpecFlipped == Init /\ [][NextFlipped]_vars

\* ------------------------------------------------------------ properties
\* the round loop has exited: the stable partitions are the finalized relations
Halted == pc \in {"extract", "done", "panic"}

\* the input facts as relations
In_invalidates == {<<t[2], t[1]>> : t \in ToSet(all_facts.invalidates)}
In_region_live_at == ToSet(all_facts.region_live_at)

\* C1: at halt, (b, p) is in errors iff (b, p) is in invalidates and in
\* borrow_live_at
C1_ErrorsSound ==
  Halted =>
    \A b \in Loan, p \in Point :
      <<b, p>> \in errors.stable
        <=> (<<b, p>> \in In_invalidates /\ <<b, p>> \in borrow_live_at.stable)

\* an error is reported, and a live loan that is not invalidated is not
C1_Witness ==
  /\ pc = "done"
  /\ errors.stable # {}
  /\ \E t \in borrow_live_at.stable : t \notin errors.stable

\* C2: at halt, (b, p) is in borrow_live_at iff some region r has
\* requires(r, b, p) and region_live_at(r, p), the latter including the
\* synthesized universal-region facts
C2_BorrowLiveSound ==
  Halted =>
    \A b \in Loan, p \in Point :
      <<b, p>> \in borrow_live_at.stable
        <=> \E r \in Region : /\ <<r, b, p>> \in requires.stable
                              /\ <<r, p>> \in In_region_live_at

\* a loan is live at one point and required but not live at another
C2_Witness ==
  /\ pc = "done"
  /\ borrow_live_at.stable # {}
  /\ \E t \in requires.stable : <<t[2], t[3]>> \notin borrow_live_at.stable

\* the input facts as relations
In_outlives == ToSet(all_facts.outlives)
In_borrow_region == ToSet(all_facts.borrow_region)
In_cfg_edge == ToSet(all_facts.cfg_edge)
In_killed == ToSet(all_facts.killed)
In_universal_region == ToSet(all_facts.universal_region)

\* the tuples (r1, r2, p) that the subset indices and join intermediates of
\* a round stand for, over all three partitions
All(v) == v.stable \cup v.recent \cup v.to_add
JoinInputs ==
  {<<t[1][1], t[2], t[1][2]>> : t \in All(subset_r1p)}
    \cup {<<t[2], t[1][1], t[1][2]>> : t \in All(subset_r2p)}
    \cup {<<t[2][1], t[2][2], t[1]>> : t \in All(subset_p)}
    \cup {<<t[1][1], t[2], t[1][2]>> : t \in All(subset_1)}
    \cup {<<t[2], t[1][1], t[1][2]>> : t \in All(subset_2)}

\* C3: no reflexive tuple (r, r, p) is ever in subset's stable partition nor
\* in an index or intermediate that a join reads, whatever the input (reflexive
\* outlives tuples, subset cycles), and the "unwanted subset symmetries"
\* assertion of the diagnostics branch never fails
C3_NoReflexiveSubset ==
  /\ \A t \in subset.stable \cup JoinInputs : t[1] # t[2]
  /\ pc # "panic"

\* diagnostics on, the input holds a reflexive outlives tuple and a subset
\* cycle r1 -> r2 -> r1, and compute has returned
C3_Witness ==
  /\ pc = "done"
  /\ dump_enabled
  /\ \E t \in In_outlives : t[1] = t[2]
  /\ \E t, u \in In_outlives : t[1] # t[2] /\ u = <<t[2], t[1], t[3]>>

\* C4 as stated: the finalized subset is transitively closed at every point
C4_Transitive ==
  Halted =>
    \A t, u \in subset.stable :
      (t[2] = u[1] /\ t[3] = u[3]) => <<t[1], u[2], t[3]>> \in subset.stable

\* C4, amended: the finalized subset is transitively closed at every point
\* for r1 # r3: subset(r1, r2, p) and subset(r2, r3, p) give subset(r1, r3, p)
C4_TransitiveIrreflexive ==
  Halted =>
    \A t, u \in subset.stable :
      (t[2] = u[1] /\ t[3] = u[3] /\ t[1] # u[2])
        => <<t[1], u[2], t[3]>> \in subset.stable

\* a chain r1 -> r2 -> r3 whose closing tuple (r1, r3, p) is no input fact
C4_Witness ==
  /\ pc = "done"
  /\ \E t, u \in subset.stable :
       /\ t[2] = u[1] /\ t[3] = u[3] /\ t[1] # u[2]
       /\ <<t[1], u[2], t[3]>> \notin In_outlives

\* C5: the round loop halts: every run of compute reaches its return (or the
\* abort of a failed assertion)
C5_Terminates == <>(pc \in {"done", "panic"})

\* compute has returned on an input with a subset cycle, whose reflexive
\* tuples were derived and pruned
C5_Witness ==
  /\ pc = "done"
  /\ \E t, u \in subset.stable : t[1] # t[2] /\ u = <<t[2], t[1], t[3]>>

\* stable and delta of a variable
Total(v) == v.stable \cup v.recent

\* C6: stable \cup delta of subset, requires, borrow_live_at and errors never
\* loses a tuple from one step to the next, except that the pruning step
\* removes reflexive subset tuples, and only those
C6_Monotone ==
  [][/\ Total(requires) \subseteq Total(requires)'
     /\ Total(borrow_live_at) \subseteq Total(borrow_live_at)'
     /\ Total(errors) \subseteq Total(errors)'
     /\ {t \in Total(subset) : t[1] # t[2]} \subseteq Total(subset)'
     /\ (pc # "prune" => Total(subset) \subseteq Total(subset)')]_vars

\* the pruning step of the first round has removed a reflexive input tuple
\* and kept the others
C6_Witness ==
  /\ pc = "rules"
  /\ subset.stable = {}
  /\ subset.recent # {}
  /\ \E t \in In_outlives : t[1] = t[2]

\* C7: a second run of compute on the same facts, pushed in another order
\* and with a duplicate, finalizes the same subset, requires, borrow_live_at
\* and errors
C7_OrderInsensitive ==
  (run = 2 /\ Halted) =>
    /\ subset.stable = first.subset
    /\ requires.stable = first.requires
    /\ borrow_live_at.stable = first.borrow_live_at
    /\ errors.stable = first.errors

\* the second run has returned, on Vecs that differ from the first run's,
\* with a loan live through a universal region
C7_Witness ==
  /\ run = 2
  /\ pc = "done"
  /\ given.universal_region # Reordered(given.universal_region)
  /\ Len(given.universal_region) > 1
  /\ borrow_live_at.stable # {}

\* C8: at halt, a loan b with no borrow_region tuple at q and killed at every
\* cfg_edge predecessor of q has no requires tuple at q, is not live at q and
\* is no error at q
C8_KillBlocks ==
  Halted =>
    \A b \in Loan, q \in Point :
      ( /\ \A r \in Region : <<r, b, q>> \notin In_borrow_region
        /\ \A p \in Point : <<p, q>> \in In_cfg_edge => <<b, p>> \in In_killed )
      => /\ \A r \in Region : <<r, b, q>> \notin requires.stable
         /\ <<b, q>> \notin borrow_live_at.stable
         /\ <<b, q>> \notin errors.stable

\* loan 1, borrowed at point 1 and killed there, would cross the edge 1 -> 2
\* into a point where its region is live and the loan is invalidated
C8_Witness ==
  /\ pc = "done"
  /\ <<1, 1>> \in In_killed
  /\ <<1, 1, 1>> \in requires.stable
  /\ <<1, 2>> \in In_region_live_at
  /\ <<1, 2>> \in In_invalidates
  /\ In_cfg_edge = {<<1, 2>>}

\* Scenario A: universal region 1, the edge 1 -> 2, a borrow at point 1, an
\* invalidation at point 2, no kill
ScenarioA ==
  /\ In_universal_region = {1}
  /\ In_cfg_edge = {<<1, 2>>}
  /\ In_borrow_region = {<<1, 1, 1>>}
  /\ In_invalidates = {<<1, 2>>}
  /\ In_killed = {}
  /\ In_outlives = {}

\* C9: at halt, requires(r, b, p) with (b, p) not killed, cfg_edge(p, q) and
\* region_live_at(r, q) gives requires(r, b, q); on Scenario A the reported
\* errors are exactly point 2 -> [loan 1]
C9_RequiresPropagates ==
  /\ Halted =>
       \A t \in requires.stable, q \in Point :
         ( /\ <<t[2], t[3]>> \notin In_killed
           /\ <<t[3], q>> \in In_cfg_edge
           /\ <<t[1], q>> \in In_region_live_at )
         => <<t[1], t[2], q>> \in requires.stable
  /\ (pc = "done" /\ ScenarioA) =>
       /\ DOMAIN result.errors = {2}
       /\ result.errors[2] = <<1>>

\* compute has returned on Scenario A
C9_Witness == pc = "done" /\ ScenarioA

\* C10: from the end of the preprocessing on, so before the first round, every
\* universal region is live at every source and every target of a cfg_edge
\* tuple: in the facts, and from the load on in the region_live_at variable
\* that the rules join with
C10_UniversalLive ==
  \A r \in In_universal_region, e \in In_cfg_edge, i \in 1..2 :
    /\ pc # "start" => <<r, e[i]>> \in In_region_live_at
    /\ pc \notin {"start", "load"} => << <<r, e[i]>>, Unit >> \in All(region_live_at)
    /\ pc \in {"prune", "rules"} => << <<r, e[i]>>, Unit >> \in Total(region_live_at)

\* the load has run, the loop has not started, and the variable holds a pair
\* for a universal region at the target of an edge
C10_Witness ==
  /\ pc = "loop"
  /\ region_live_at.to_add # {}
  /\ \E r \in In_universal_region, e \in In_cfg_edge :
       e[1] # e[2] /\ << <<r, e[2]>>, Unit >> \in region_live_at.to_add

\* the points that hold a tuple (x, p) of a relation of pairs
PointsOf(rel) == {t[2] : t \in rel}

\* C11: result.errors does not depend on dump_enabled: a second run on the
\* same facts with the flag flipped returns the same errors, which always has
\* an entry for every point of the errors relation; the subset, restricts,
\* region_live_at and borrow_live_at projections have an entry for every point
\* of their relation when dump_enabled is true and are empty otherwise
C11_DumpFrame ==
  pc = "done" =>
    /\ run = 2 => result.errors = first.result.errors
    /\ DOMAIN result.errors = PointsOf(errors.stable)
    /\ DOMAIN result.subset =
         (IF dump_enabled THEN {t[3] : t \in subset.stable} ELSE {})
    /\ DOMAIN result.restricts =
         (IF dump_enabled THEN {t[3] : t \in requires.stable} ELSE {})
    /\ DOMAIN result.region_live_at =
         (IF dump_enabled THEN {t[1][2] : t \in region_live_at.stable} ELSE {})
    /\ DOMAIN result.borrow_live_at =
         (IF dump_enabled THEN PointsOf(borrow_live_at.stable) ELSE {})

\* the second run, without diagnostics, has returned an error that the first
\* run returned with diagnostics
C11_Witness ==
  /\ pc = "done"
  /\ run = 2
  /\ ~dump_enabled
  /\ errors.stable # {}
  /\ first.result.borrow_live_at # <<>>

\* C12: result.errors has an entry for point p exactly when some errors(b, p)
\* exists, and the sequence at p lists exactly the loans b with errors(b, p),
\* each once, in ascending order
C12_ErrorsProjection ==
  pc = "done" =>
    /\ DOMAIN result.errors = PointsOf(errors.stable)
    /\ \A p \in DOMAIN result.errors :
         LET s == result.errors[p]
             loans == {t[1] : t \in {u \in errors.stable : u[2] = p}}
         IN /\ ToSet(s) = loans
            /\ Len(s) = Cardinality(loans)
            /\ \A i, j \in DOMAIN s : i < j => s[i] < s[j]

\* two loans are reported at one point, and another point has no entry
C12_Witness ==
  /\ pc = "done"
  /\ \E p \in DOMAIN result.errors : Len(result.errors[p]) > 1
  /\ \E p \in Point : p \notin DOMAIN result.errors

\* C13 as stated: every outlives tuple is in the finalized subset
C13_SubsetBase ==
  Halted => \A t \in In_outlives : t \in subset.stable

\* C13, amended: every outlives tuple (r1, r2, p) with r1 # r2 is in the
\* finalized subset
C13_SubsetBaseIrreflexive ==
  Halted => \A t \in In_outlives : t[1] # t[2] => t \in subset.stable

\* compute has returned on an input with a reflexive and a non-reflexive
\* outlives tuple
C13_Witness ==
  /\ pc = "done"
  /\ \E t \in In_outlives : t[1] # t[2]
  /\ \E t \in In_outlives : t[1] = t[2]

\* C14: at halt, subset(r1, r2, p), cfg_edge(p, q), region_live_at(r1, q) and
\* region_live_at(r2, q) give subset(r1, r2, q); and the tuples that line 128
\* adds to subset in any round are tuples (r1, r2, q) with r1 and r2 live at q
\* that come from a subset tuple at a cfg_edge predecessor of q
C14_SubsetPropagates ==
  /\ Halted =>
       \A t \in subset.stable, q \in Point :
         ( /\ <<t[3], q>> \in In_cfg_edge
           /\ <<t[1], q>> \in In_region_live_at
           /\ <<t[2], q>> \in In_region_live_at )
         => <<t[1], t[2], q>> \in subset.stable
  /\ pc = "rules" =>
       \A t \in subset_cfg :
         /\ <<t[1], t[3]>> \in In_region_live_at
         /\ <<t[2], t[3]>> \in In_region_live_at
         /\ \E p \in Point : /\ <<p, t[3]>> \in In_cfg_edge
                              /\ <<t[1], t[2], p>> \in Total(subset)

\* every outlives fact is at point 1, and a subset tuple has crossed the edge
\* 1 -> 2
C14_Witness ==
  /\ pc = "done"
  /\ In_cfg_edge = {<<1, 2>>}
  /\ \A t \in In_outlives : t[3] = 1
  /\ \E t \in subset.stable : t[3] = 2

\* C15: at halt, requires(r1, b, p) and subset(r1, r2, p) give
\* requires(r2, b, p)
C15_RequiresViaSubset ==
  Halted =>
    \A t \in requires.stable, u \in subset.stable :
      (u[1] = t[1] /\ u[3] = t[3]) => <<u[2], t[2], t[3]>> \in requires.stable

\* a requires tuple that is no borrow_region fact came through a subset tuple
C15_Witness ==
  /\ pc = "done"
  /\ \E t \in requires.stable, u \in subset.stable :
       /\ u[1] = t[1] /\ u[3] = t[3]
       /\ <<u[2], t[2], t[3]>> \notin In_borrow_region

\* the names of iter_vars, in its order
VarNames == <<"subset", "requires", "borrow_live_at", "invalidates",
              "subset_r1p", "subset_r2p", "subset_p", "requires_rp", "requires_bp",
              "subset_1", "subset_2", "requires_1", "requires_2",
              "region_live_at", "cfg_edge_p", "errors">>

\* the tuples a variable received in the round that ends: its to_add, for a
\* distinct variable without the duplicates of stable and recent
Received(v, distinct) ==
  IF distinct THEN v.to_add \ (v.stable \cup v.recent) ELSE v.to_add

NaiveStep(st, prune) ==
  LET S == st.subset
      Q == st.requires
      S2 == S \cup In_outlives
              \cup {<<x[1][1], x[2][2], x[1][3]>> :
                      x \in {y \in S \X S : y[2][1] = y[1][2] /\ y[2][3] = y[1][3]}}
              \cup {<<x[1][1], x[1][2], x[2][2]>> :
                      x \in {y \in S \X In_cfg_edge :
                               /\ y[2][1] = y[1][3]
                               /\ <<y[1][1], y[2][2]>> \in In_region_live_at
                               /\ <<y[1][2], y[2][2]>> \in In_region_live_at}}
      Q2 == Q \cup In_borrow_region
              \cup {<<x[2][2], x[1][2], x[1][3]>> :
                      x \in {y \in Q \X S : y[2][1] = y[1][1] /\ y[2][3] = y[1][3]}}
              \cup {<<x[1][1], x[1][2], x[2][2]>> :
                      x \in {y \in Q \X In_cfg_edge :
                               /\ <<y[1][2], y[1][3]>> \notin In_killed
                               /\ y[2][1] = y[1][3]
                               /\ <<y[1][1], y[2][2]>> \in In_region_live_at}}
  IN [subset |-> IF prune THEN {t \in S2 : t[1] # t[2]} ELSE S2,
      requires |-> Q2]

RECURSIVE NaiveLfp(_, _)
\* the rules applied until nothing changes
NaiveLfp(st, prune) ==
  LET next == NaiveStep(st, prune)
  IN IF next = st THEN st ELSE NaiveLfp(next, prune)

NaiveStart == [subset |-> {}, requires |-> {}]

\* the rule of line 144 on the full relations
NaiveBorrowLiveAt(st) ==
  {<<t[2], t[3]>> : t \in {u \in st.requires : <<u[1], u[3]>> \in In_region_live_at}}

\* the rule of line 149 on the full relations
NaiveErrors(st) == NaiveBorrowLiveAt(st) \cap In_invalidates

\* C17: the relations finalized by the delta-driven round loop are the least
\* fixpoint of the rules applied to the full relations, reflexive subset
\* tuples removed in every application
C17_SemiNaiveIsNaive ==
  Halted =>
    LET n == NaiveLfp(NaiveStart, TRUE)
    IN /\ subset.stable = n.subset
       /\ requires.stable = n.requires
       /\ borrow_live_at.stable = NaiveBorrowLiveAt(n)
       /\ errors.stable = NaiveErrors(n)

\* a requires tuple has crossed the edge through the three-round chain of
\* lines 140-142 and a subset tuple was derived
C17_Witness ==
  /\ pc = "done"
  /\ \E t \in requires.stable : t[3] = 2 /\ t \notin In_borrow_region
  /\ \E t \in subset.stable : t \notin In_outlives

\* C18: requires, borrow_live_at and errors, and the subset tuples with
\* r1 # r2, are those of the rule set evaluated without the cleanup step
C18_PruningLosesNothing ==
  Halted =>
    LET m == NaiveLfp(NaiveStart, FALSE)
    IN /\ subset.stable = {t \in m.subset : t[1] # t[2]}
       /\ requires.stable = m.requires
       /\ borrow_live_at.stable = NaiveBorrowLiveAt(m)
       /\ errors.stable = NaiveErrors(m)

\* reflexive tuples were derived from a subset cycle and pruned, and a
\* requires tuple came through the cycle
C18_Witness ==
  /\ pc = "done"
  /\ \E t \in subset.stable : <<t[2], t[1], t[3]>> \in subset.stable
  /\ \E t \in requires.stable : t \notin In_borrow_region
  /\ \E t \in NaiveLfp(NaiveStart, FALSE).subset : t[1] = t[2]

\* ------------------------------------------------------ unkilled paths
RECURSIVE Extend(_, _)
\* the points reached from the set ps along cfg_edge(x, y) with (b, x) not in
\* killed, as lines 140-141 let a loan cross an edge
Extend(b, ps) ==
  LET more == ps \cup {e[2] : e \in {f \in In_cfg_edge :
                                        f[1] \in ps /\ <<b, f[1]>> \notin In_killed}}
  IN IF more = ps THEN ps ELSE Extend(b, more)

\* the points with an unkilled path from a point where b is borrowed
Reach(b) == Extend(b, {t[3] : t \in {u \in In_borrow_region : u[2] = b}})

\* C19: an error (b, p) is invalidated at p and p has a cfg_edge path from a
\* point where b is borrowed on which b is not killed before p; whether b is
\* killed at p itself plays no part
C19_UnkilledPath ==
  Halted =>
    /\ \A e \in errors.stable : e \in In_invalidates /\ e[2] \in Reach(e[1])
    /\ \A t \in requires.stable :
         ( /\ <<t[1], t[3]>> \in In_region_live_at
           /\ <<t[2], t[3]>> \in In_invalidates )
         => <<t[2], t[3]>> \in errors.stable

\* loan 1 crossed the edge 1 -> 2 and is reported at point 2, where it is
\* killed
C19_Witness ==
  /\ pc = "done"
  /\ <<1, 2>> \in errors.stable
  /\ <<1, 2>> \in In_killed
  /\ \A r \in Region : <<r, 1, 2>> \notin In_borrow_region

====
